---------------------------- MODULE Spec2Model ----------------------------
(***************************************************************************)
(* A model of final-Project2.py: the interactive currency converter.       *)
(*                                                                         *)
(* Texts are TLA+ strings; a character is a string of length 1.  The      *)
(* string methods the program uses (strip, upper, split, count, isdigit,  *)
(* isalpha, int, float) are written out over the characters below.        *)
(* Numbers read with float() are modelled as exact decimals (see Dec);    *)
(* binary rounding of float arithmetic is not modelled.                   *)
(***************************************************************************)
EXTENDS Integers, Sequences, FiniteSets, TLC

(***************************************************************************)
(* Characters and the str methods                                          *)
(***************************************************************************)

\* str s[i] (1-based here)
Char(s, i) == SubSeq(s, i, i)

\* the characters str.strip() removes, among those the model's inputs use
Whitespace == {" ", "\t"}

AsciiDigits == "0123456789"

AsciiUpper == "ABCDEFGHIJKLMNOPQRSTUVWXYZ"

AsciiLower == "abcdefghijklmnopqrstuvwxyz"

\* a character for which str.isdigit() is true and int()/float() raise
\* ValueError (SUPERSCRIPT TWO)
SuperscriptTwo == "²"

\* the position of character c in string s, 0 when absent
IndexIn(s, c) ==
    IF \E i \in 1..Len(s) : Char(s, i) = c
    THEN CHOOSE i \in 1..Len(s) : Char(s, i) = c
    ELSE 0

\* the characters of a string
Chars(s) == {Char(s, i) : i \in 1..Len(s)}

DecimalDigits == Chars(AsciiDigits)

Letters == Chars(AsciiUpper) \cup Chars(AsciiLower)

\* the value of a decimal digit
DigitValue == [c \in DecimalDigits |-> IndexIn(AsciiDigits, c) - 1]

\* str.upper() on the lower-case letters
UpperOf == [c \in Chars(AsciiLower) |-> Char(AsciiUpper, IndexIn(AsciiLower, c))]

IsAsciiDigitChar(c) == c \in DecimalDigits

\* str.isdigit() on one character
IsDigitChar(c) == IsAsciiDigitChar(c) \/ c = SuperscriptTwo

\* str.isalpha() on one character
IsAlphaChar(c) == c \in Letters

\* str.isdigit(): non-empty and every character a digit
IsDigit(s) == Len(s) > 0 /\ \A i \in 1..Len(s) : IsDigitChar(Char(s, i))

\* str.isalpha(): non-empty and every character a letter
IsAlpha(s) == Len(s) > 0 /\ \A i \in 1..Len(s) : IsAlphaChar(Char(s, i))

RECURSIVE LStrip(_)
LStrip(s) ==
    IF Len(s) > 0 /\ Char(s, 1) \in Whitespace
    THEN LStrip(SubSeq(s, 2, Len(s)))
    ELSE s

RECURSIVE RStrip(_)
RStrip(s) ==
    IF Len(s) > 0 /\ Char(s, Len(s)) \in Whitespace
    THEN RStrip(SubSeq(s, 1, Len(s) - 1))
    ELSE s

\* str.strip()
Strip(s) == RStrip(LStrip(s))

UpperChar(c) == IF c \in DOMAIN UpperOf THEN UpperOf[c] ELSE c

RECURSIVE Upper(_)
\* str.upper()
Upper(s) ==
    IF Len(s) = 0 THEN ""
    ELSE UpperChar(Char(s, 1)) \o Upper(SubSeq(s, 2, Len(s)))

RECURSIVE Count(_, _)
\* str.count(c) for a one-character c
Count(s, c) ==
    IF Len(s) = 0 THEN 0
    ELSE (IF Char(s, 1) = c THEN 1 ELSE 0) + Count(SubSeq(s, 2, Len(s)), c)

RECURSIVE Split(_, _)
\* str.split(sep) for a one-character sep: always at least one part
Split(s, sep) ==
    LET i == IndexIn(s, sep)
    IN  IF i = 0 THEN <<s>>
        ELSE <<SubSeq(s, 1, i - 1)>> \o Split(SubSeq(s, i + 1, Len(s)), sep)

\* int(s) and float(s) parse s when every digit of it is a decimal digit;
\* a character that only str.isdigit() accepts makes them raise ValueError
AllAsciiDigits(s) == \A i \in 1..Len(s) : IsAsciiDigitChar(Char(s, i))

RECURSIVE DigitsValue(_)
\* the number a string of decimal digits denotes ("" denotes 0)
DigitsValue(s) ==
    IF Len(s) = 0 THEN 0
    ELSE 10 * DigitsValue(SubSeq(s, 1, Len(s) - 1))
           + DigitValue[Char(s, Len(s))]

\* what a call gives back: a value, or an exception raised
Return(v) == <<"return", v>>

Raise(e) == <<"raise", e>>

Returned(r) == r[1] = "return"

Raised(r) == r[1] = "raise"

(***************************************************************************)
(* Validators (static methods of CurrencyConverter)                        *)
(***************************************************************************)

is_leap_year(year) == (year % 400 = 0) \/ (year % 4 = 0 /\ year % 100 # 0)

month_days(year) ==
    <<31, IF is_leap_year(year) THEN 29 ELSE 28, 31, 30, 31, 30,
      31, 31, 30, 31, 30, 31>>

is_valid_date_yyyy_mm_dd(date_text) ==
    LET text_to_check == Strip(date_text)
        parts == Split(text_to_check, "-")
    IN  IF Len(parts) # 3 THEN Return(FALSE)
        ELSE
        LET year_text == parts[1]
            month_text == parts[2]
            day_text == parts[3]
        IN  IF ~(Len(year_text) = 4 /\ Len(month_text) = 2 /\ Len(day_text) = 2)
            THEN Return(FALSE)
            ELSE IF ~(IsDigit(year_text) /\ IsDigit(month_text) /\ IsDigit(day_text))
            THEN Return(FALSE)
            ELSE IF ~(AllAsciiDigits(year_text) /\ AllAsciiDigits(month_text)
                      /\ AllAsciiDigits(day_text))
            THEN Raise("ValueError")
            ELSE
            LET year == DigitsValue(year_text)
                month == DigitsValue(month_text)
                day == DigitsValue(day_text)
            IN  IF month < 1 \/ month > 12 THEN Return(FALSE)
                ELSE Return(1 <= day /\ day <= month_days(year)[month])

is_number_str(number_text) ==
    LET stripped == Strip(number_text)
    IN  IF stripped = "" THEN FALSE
        ELSE
        LET signed == Char(stripped, 1) \in {"+", "-"}
            text_to_check == IF signed THEN SubSeq(stripped, 2, Len(stripped))
                             ELSE stripped
        IN  IF signed /\ text_to_check = "" THEN FALSE
            ELSE IF Count(text_to_check, ".") > 1 THEN FALSE
            ELSE IF ~(\E i \in 1..Len(text_to_check) :
                         IsDigitChar(Char(text_to_check, i)))
            THEN FALSE
            ELSE
            LET parts == Split(text_to_check, ".")
            IN  IF Len(parts) = 1 THEN IsDigit(parts[1])
                ELSE
                LET left == parts[1]
                    right == parts[2]
                    left_ok == (left = "") \/ IsDigit(left)
                    right_ok == (right = "") \/ IsDigit(right)
                IN  left_ok /\ right_ok

(***************************************************************************)
(* float values as exact decimals: [num |-> n, exp |-> e] is n / 10^e,     *)
(* kept with no trailing zero in the fraction so that equal numbers are    *)
(* equal records                                                           *)
(***************************************************************************)

RECURSIVE Pow10(_)
Pow10(e) == IF e = 0 THEN 1 ELSE 10 * Pow10(e - 1)

RECURSIVE Dec(_, _)
Dec(n, e) ==
    IF e > 0 /\ n % 10 = 0 THEN Dec(n \div 10, e - 1)
    ELSE [num |-> n, exp |-> e]

\* float * float
DecMul(a, b) == Dec(a.num * b.num, a.exp + b.exp)

\* float < 0
DecNegative(a) == a.num < 0

\* float(s) for the literals the model's inputs can form: optional
\* whitespace, an optional sign, decimal digits with at most one point and
\* at least one digit; anything else raises ValueError
FloatOf(s) ==
    LET stripped == Strip(s)
        signed == Len(stripped) > 0 /\ Char(stripped, 1) \in {"+", "-"}
        negative == signed /\ Char(stripped, 1) = "-"
        body == IF signed THEN SubSeq(stripped, 2, Len(stripped)) ELSE stripped
        parts == Split(body, ".")
    IN  IF Len(parts) > 2 THEN Raise("ValueError")
        ELSE
        LET left == parts[1]
            right == IF Len(parts) = 2 THEN parts[2] ELSE ""
        IN  IF left = "" /\ right = "" THEN Raise("ValueError")
            ELSE IF ~(AllAsciiDigits(left) /\ AllAsciiDigits(right))
            THEN Raise("ValueError")
            ELSE
            LET magnitude == DigitsValue(left) * Pow10(Len(right)) + DigitsValue(right)
            IN  Return(Dec(IF negative THEN 0 - magnitude ELSE magnitude, Len(right)))

parse_amount(amount_text) == FloatOf(Strip(amount_text))

(***************************************************************************)
(* Bounds and the inputs the model draws from                              *)
(***************************************************************************)

\* The number of menu commands 1..4 one session may run.  A conversion or
\* a rate lookup leaves nothing behind that a later action reads (only log
\* lines, and the registry reload that every action starts with), so the
\* model lets nothing but the commands 0 and 9 follow one:
\* it uses up the session's budget (see Budget).
MaxActions == 2

\* texts typed at a currency prompt
CodeInputs == {"", "  ", "usd", " EUR ", "US"}

\* texts typed at the amount prompt
AmountInputs == {"", "abc", "-5", " 100 ", "²"}

\* texts typed at the date prompt
DateInputs == {"", "2024-02-29", "2023-02-29", "20²4-01-01"}

\* texts typed at the menu prompt
Commands == {"1", "2", "3", "4", "9", "0", "", "x"}

\* the rate and the date the remote service answers with
ProviderRate == Dec(35, 0)

ProviderDate == "2025-01-02"

(***************************************************************************)
(* Python's None                                                           *)
(***************************************************************************)

\* None where a str is expected; no text of the model equals it
None == "<None>"

\* None where a float or a dict is expected
NoneObj == [none |-> TRUE]

(***************************************************************************)
(* The remote service and CurrencyAPIClient                                *)
(***************************************************************************)

\* a JSON number and the JSON null
JsonNumber(d) == <<"number", d>>

JsonNull == <<"null">>

\* float(x) of a JSON value: a number converts, None raises TypeError
FloatOfJson(v) == IF v[1] = "number" THEN Return(v[2]) ELSE Raise("TypeError")

\* what requests.get / raise_for_status / response.json() can do for one
\* request: raise Timeout, another RequestException, ValueError (bad JSON),
\* be interrupted by Ctrl+C, or give a decoded body: a dict ("ok") or a
\* JSON number ("number")
Transport(bodies) ==
    {[kind |-> k] : k \in {"Timeout", "RequestException", "ValueError",
                           "KeyboardInterrupt", "number"}}
        \cup {[kind |-> "ok", body |-> b] : b \in bodies}

\* bodies of GET /latest and GET /{date}: a dict is a function from keys
\* to values, the empty dict is <<>>
RateBodies(target) ==
    { <<>>,
      [rates |-> <<>>],
      [rates |-> (target :> JsonNumber(ProviderRate)), date |-> ProviderDate],
      [rates |-> (target :> JsonNumber(ProviderRate))],
      [rates |-> (target :> JsonNull), date |-> ProviderDate] }

\* bodies of GET /currencies: the items of the dict in the order received
CurrencyBodies ==
    { <<>>,
      << <<"USD", "United States Dollar">>, <<"THB", "Thai Baht">>,
         <<"EUR", "Euro">> >>,
      << <<"JPY", "Japanese Yen">>, <<"EUR", "Euro">> >> }

\* the outcomes of a request that is made only if needed
Request(needed, outcomes) == IF needed THEN outcomes ELSE {[kind |-> "no request"]}

http_get_json(outcome) ==
    IF outcome.kind = "ok" THEN Return([json |-> outcome.body])
    ELSE IF outcome.kind = "number" THEN Return([number |-> ProviderRate])
    ELSE IF outcome.kind = "KeyboardInterrupt" THEN Raise("KeyboardInterrupt")
    ELSE Return(NoneObj)

\* the tail shared by fetch_latest_rate and fetch_rate_on_date
fetch_rate(outcome, target_currency_code, default_date) ==
    LET got == http_get_json(outcome)
    IN  IF Raised(got) THEN got
        ELSE
        IF got[2] = NoneObj THEN Return(<<NoneObj, None>>)
        \* "rates" not in data, with data a number
        ELSE IF "json" \notin DOMAIN got[2] THEN Raise("TypeError")
        ELSE
        LET data == got[2].json
        IN  IF "rates" \notin DOMAIN data THEN Return(<<NoneObj, None>>)
            ELSE IF target_currency_code \notin DOMAIN data.rates
            THEN Return(<<NoneObj, None>>)
            ELSE
            LET rate == FloatOfJson(data.rates[target_currency_code])
            IN  IF Raised(rate) THEN rate
                ELSE Return(<<rate[2],
                              IF "date" \in DOMAIN data THEN data.date
                              ELSE default_date>>)

fetch_latest_rate(outcome, base_currency_code, target_currency_code) ==
    fetch_rate(outcome, target_currency_code, "")

fetch_rate_on_date(outcome, base_currency_code, target_currency_code, date_text) ==
    fetch_rate(outcome, target_currency_code, date_text)

(***************************************************************************)
(* The registry: a dict kept as its items in insertion order               *)
(***************************************************************************)

\* the characters of the model in code point order
CodePoints == "\t +-.0123456789" \o AsciiUpper \o AsciiLower \o SuperscriptTwo

\* ord(c)'s place in that order
Ord == [c \in Chars(CodePoints) |-> IndexIn(CodePoints, c)]

RECURSIVE StrLess(_, _)
\* a < b on str
StrLess(a, b) ==
    IF Len(b) = 0 THEN FALSE
    ELSE IF Len(a) = 0 THEN TRUE
    ELSE IF Char(a, 1) = Char(b, 1)
    THEN StrLess(SubSeq(a, 2, Len(a)), SubSeq(b, 2, Len(b)))
    ELSE Ord[Char(a, 1)] < Ord[Char(b, 1)]

RECURSIVE Insert(_, _)
Insert(item, sorted) ==
    IF Len(sorted) = 0 THEN <<item>>
    ELSE IF StrLess(item[1], sorted[1][1]) THEN <<item>> \o sorted
    ELSE <<sorted[1]>> \o Insert(item, Tail(sorted))

RECURSIVE Sorted(_)
\* sorted(d.items()): the keys of a dict are distinct
Sorted(items) ==
    IF Len(items) = 0 THEN <<>>
    ELSE Insert(items[1], Sorted(Tail(items)))

FallbackCurrencies ==
    << <<"USD", "US Dollar">>, <<"EUR", "Euro">>, <<"THB", "Thai Baht">>,
       <<"JPY", "Japanese Yen">>, <<"GBP", "British Pound">> >>

\* the keys of a dict
Keys(items) == {items[i][1] : i \in 1..Len(items)}

\* iter_currencies: the items of the dict, in the dict's order
iter_currencies(items) == [i \in 1..Len(items) |-> items[i]]

\* a variant that adds the provider's items to the fallback set
load_supported_currencies_merges(outcome) ==
    LET got == http_get_json(outcome)
    IN  IF Raised(got) THEN got
        ELSE IF got[2] = NoneObj THEN Return(FallbackCurrencies)
        ELSE IF "json" \notin DOMAIN got[2] THEN Raise("AttributeError")
        ELSE Return(Sorted(got[2].json
                 \o SelectSeq(FallbackCurrencies,
                        LAMBDA item : item[1] \notin Keys(got[2].json))))

\* load_supported_currencies: the new self.currencies, or the exception
load_supported_currencies(outcome) ==
    LET got == http_get_json(outcome)
    IN  IF Raised(got) THEN got
        ELSE IF got[2] = NoneObj THEN Return(FallbackCurrencies)
        \* data_from_api.items(), with data_from_api a number
        ELSE IF "json" \notin DOMAIN got[2] THEN Raise("AttributeError")
        ELSE Return(Sorted(got[2].json))

(***************************************************************************)
(* State                                                                   *)
(*   pc             where main() is: "main" before the with statement,     *)
(*                  "menu" blocked on the command prompt, "prompt" blocked *)
(*                  on a field prompt of an action, "exited" after main()  *)
(*   file           SessionLogger._file: "None" or "open"                  *)
(*   log            the lines this session appended to the log file        *)
(*   base_currency  CurrencyConverter.base_currency                        *)
(*   currencies     CurrencyConverter.currencies, items in dict order      *)
(*   started        how many commands 1..4 the session has run             *)
(*   frame          the running action and its local variables             *)
(*   hist           what the running (or last) action did so far; never    *)
(*                  read by the program, only by the properties            *)
(*   arg, ret       argument and result of a validator called on its own   *)
(***************************************************************************)
VARIABLES pc, file, log, base_currency, currencies, started, frame, hist,
          arg, ret

vars == <<pc, file, log, base_currency, currencies, started, frame, hist,
          arg, ret>>

IdleFrame ==
    [func |-> "none", field |-> "none", attempts |-> 0,
     source |-> None, target |-> None, amount |-> NoneObj]

\* no prompt has returned yet
NoField ==
    [field |-> "none", reads |-> 0, attempts |-> 0, validated |-> FALSE,
     how |-> "none"]

\* The history of an action that starts with registry c, base b, log l:
\*   reads             input() calls of the pending prompt
\*   last              the prompt that returned last: its input() calls, its
\*                     attempts counter, whether its last pass called the
\*                     field's validator, and the branch that returned
\*   failed_before     some earlier prompt of the action had a failed attempt
\*   source .. date    what the prompts of the action returned
\*   calls, fetched    the rate calls made, and what the last one returned
\*   converted         the product amount * rate, once computed
\*   negative          the amount prompt read a well-formed negative number
\*   listed            the items list_supported_currencies printed, in order
\*   result            how the action ended
FreshHist(func, b, c, l) ==
    [func |-> func, reads |-> 0, last |-> NoField,
     failed_before |-> FALSE, negative |-> FALSE, listed |-> <<>>,
     source |-> None, target |-> None, amount |-> NoneObj, date |-> None,
     calls |-> <<>>, fetched |-> <<>>, converted |-> NoneObj,
     result |-> "running", base0 |-> b, currencies0 |-> c, log0 |-> l]

\* no action has run
NoHist == FreshHist("none", "USD", <<>>, <<>>)

(***************************************************************************)
(* SessionLogger                                                           *)
(***************************************************************************)

\* a variant without the "_file is None" test
SessionLog_unguarded(f, lines, message) == Append(lines, message)

\* SessionLogger.log: the log after log(message) with _file = f
SessionLog(f, lines, message) ==
    IF f = "None" THEN lines ELSE Append(lines, message)

\* SessionLogger.__exit__: the line it logs
ExitLine(exc_type) ==
    IF exc_type = None THEN [event |-> "Session ended normally."]
    ELSE [event |-> "Session ended with error", exc |-> exc_type]

\* safe_action: the line logged for an exception caught around func
SafeActionLine(func, exc) ==
    IF exc = "KeyboardInterrupt"
    THEN [event |-> "User cancelled operation with Ctrl+C.", func |-> func]
    ELSE [event |-> "Error", func |-> func, exc |-> exc]

(***************************************************************************)
(* CurrencyConverter: validation against the registry, and the prompts     *)
(***************************************************************************)

\* a variant that compares the text as typed
is_valid_currency_code_as_typed(currency_code_text) ==
    IF currency_code_text = None THEN FALSE
    ELSE LET code == Strip(currency_code_text)
         IN  Len(code) = 3 /\ IsAlpha(code) /\ code \in Keys(currencies)

is_valid_currency_code(currency_code_text) ==
    IF currency_code_text = None THEN FALSE
    ELSE LET code == Upper(Strip(currency_code_text))
         IN  Len(code) = 3 /\ IsAlpha(code) /\ code \in Keys(currencies)

\* One pass of a prompt's while loop on the text read.  kind is "again"
\* (the loop reads once more), "return" (the prompt returns value) or
\* "raise"; attempts is the counter after the pass; validated tells whether
\* the field's validator was called; how names the branch taken.
Failed_four(attempts, validated) ==
    IF attempts + 1 < 4
    THEN [kind |-> "again", attempts |-> attempts + 1, validated |-> validated,
          how |-> "failed"]
    ELSE [kind |-> "return", attempts |-> attempts + 1, validated |-> validated,
          how |-> "exhausted"]

Failed(attempts, validated) ==
    IF attempts + 1 < 3
    THEN [kind |-> "again", attempts |-> attempts + 1, validated |-> validated,
          how |-> "failed"]
    ELSE [kind |-> "return", attempts |-> attempts + 1, validated |-> validated,
          how |-> "exhausted"]

Returns(attempts, validated, how) ==
    [kind |-> "return", attempts |-> attempts, validated |-> validated,
     how |-> how]

\* a variant that treats the empty input like any other text
_prompt_currency_code_checks_default(attempts, text, allow_empty, default, treat_empty_as_cancel) ==
    LET code == Upper(Strip(text))
        used == IF code = "" /\ allow_empty /\ default # None THEN default
                ELSE code
    IN  IF code = "" /\ ~(allow_empty /\ default # None)
        THEN IF treat_empty_as_cancel
             THEN <<Returns(attempts, FALSE, "empty_cancel"), None>>
             ELSE <<Failed(attempts, FALSE), None>>
        ELSE IF is_valid_currency_code(used)
        THEN <<Returns(attempts, TRUE, IF code = "" THEN "default" ELSE "accepted"),
               used>>
        ELSE <<Failed(attempts, TRUE), None>>

_prompt_currency_code(attempts, text, allow_empty, default, treat_empty_as_cancel) ==
    LET code == Upper(Strip(text))
    IN  IF code = ""
        THEN IF allow_empty /\ default # None
             THEN <<Returns(attempts, FALSE, "default"), default>>
             ELSE IF treat_empty_as_cancel
             THEN <<Returns(attempts, FALSE, "empty_cancel"), None>>
             ELSE <<Failed(attempts, FALSE), None>>
        ELSE IF is_valid_currency_code(code)
        THEN <<Returns(attempts, TRUE, "accepted"), code>>
        ELSE <<Failed(attempts, TRUE), None>>

\* a variant that converts first and looks at the text afterwards
_prompt_amount_parses_first(attempts, input) ==
    LET text == Strip(input)
    IN  IF text = "" THEN <<Failed(attempts, FALSE), NoneObj, <<>>>>
        ELSE
        LET value == parse_amount(text)
        IN  IF Raised(value)
            THEN <<Failed(attempts, TRUE), NoneObj, <<"parse_amount">>>>
            ELSE IF ~is_number_str(text)
            THEN <<Failed(attempts, TRUE), NoneObj,
                   <<"parse_amount", "is_number_str">>>>
            ELSE IF DecNegative(value[2])
            THEN <<Failed(attempts, TRUE), NoneObj,
                   <<"parse_amount", "is_number_str">>>>
            ELSE <<Returns(attempts, TRUE, "accepted"), value[2],
                   <<"parse_amount", "is_number_str">>>>

\* a variant without the "value < 0" test
_prompt_amount_takes_negative(attempts, input) ==
    LET text == Strip(input)
    IN  IF text = "" THEN <<Failed(attempts, FALSE), NoneObj, <<>>>>
        ELSE IF ~is_number_str(text)
        THEN <<Failed(attempts, TRUE), NoneObj, <<"is_number_str">>>>
        ELSE
        LET value == parse_amount(text)
            called == <<"is_number_str", "parse_amount">>
        IN  IF Raised(value)
            THEN <<[kind |-> "raise", attempts |-> attempts, validated |-> TRUE,
                    how |-> value[2]], NoneObj, called>>
            ELSE <<Returns(attempts, TRUE, "accepted"), value[2], called>>

\* one pass of the loop: the step, the value, and the static methods the
\* pass called, in order
_prompt_amount(attempts, input) ==
    LET text == Strip(input)
    IN  IF text = "" THEN <<Failed(attempts, FALSE), NoneObj, <<>>>>
        ELSE IF ~is_number_str(text)
        THEN <<Failed(attempts, TRUE), NoneObj, <<"is_number_str">>>>
        ELSE
        LET value == parse_amount(text)
            called == <<"is_number_str", "parse_amount">>
        IN  IF Raised(value)
            THEN <<[kind |-> "raise", attempts |-> attempts, validated |-> TRUE,
                    how |-> value[2]], NoneObj, called>>
            ELSE IF DecNegative(value[2])
            THEN <<Failed(attempts, TRUE), NoneObj, called>>
            ELSE <<Returns(attempts, TRUE, "accepted"), value[2], called>>

_prompt_date_or_latest(attempts, input) ==
    LET text == Strip(input)
    IN  IF text = "" THEN <<Returns(attempts, FALSE, "latest"), "">>
        ELSE
        LET valid == is_valid_date_yyyy_mm_dd(text)
        IN  IF Raised(valid)
            THEN <<[kind |-> "raise", attempts |-> attempts, validated |-> TRUE,
                    how |-> valid[2]], None>>
            ELSE IF valid[2] THEN <<Returns(attempts, TRUE, "accepted"), text>>
            ELSE <<Failed(attempts, TRUE), None>>

(***************************************************************************)
(* History bookkeeping and the ways a step of an action ends               *)
(***************************************************************************)

\* one more input() of the pending prompt
HRead(r) == [hist EXCEPT !.reads = @ + 1]

\* the pending prompt returned value
HField(r, value) ==
    LET h == HRead(r)
        done == [h EXCEPT !.last = [field |-> frame.field,
                                    reads |-> h.reads,
                                    attempts |-> r.attempts,
                                    validated |-> r.validated,
                                    how |-> r.how],
                          !.failed_before = @ \/ hist.last.attempts > 0,
                          !.reads = 0]
    IN  IF frame.field = "amount" THEN [done EXCEPT !.amount = value]
        ELSE IF frame.field = "date" THEN [done EXCEPT !.date = value]
        ELSE IF frame.field = "target" THEN [done EXCEPT !.target = value]
        ELSE [done EXCEPT !.source = value]

\* the text read at the amount prompt is a well-formed negative number
NegativeAmount(text) ==
    LET stripped == Strip(text)
        value == parse_amount(stripped)
    IN  is_number_str(stripped) /\ Returned(value) /\ DecNegative(value[2])

HNegative(text, h) == [h EXCEPT !.negative = @ \/ NegativeAmount(text)]

\* the prompt loops: the same prompt is read again
Again(r) ==
    /\ pc' = pc
    /\ frame' = [frame EXCEPT !.attempts = r.attempts]
    /\ hist' = HRead(r)
    /\ log' = log

\* the action goes on to its next prompt
Moves(f, h) ==
    /\ pc' = pc
    /\ frame' = f
    /\ hist' = h
    /\ log' = log

\* the action returns to run()'s loop
Ends(result, lines, h) ==
    /\ pc' = "menu"
    /\ frame' = IdleFrame
    /\ hist' = [h EXCEPT !.result = result]
    /\ log' = lines

\* a variant that swallows Ctrl+C without a log line
safe_action_silent(func, exc, h) ==
    Ends(IF exc = "KeyboardInterrupt" THEN "interrupted" ELSE "error",
         IF exc = "KeyboardInterrupt" THEN log
         ELSE SessionLog(file, log, SafeActionLine(func, exc)),
         [h EXCEPT !.reads = 0, !.last = NoField, !.failed_before = FALSE])

\* safe_action: an exception raised inside func is caught and logged (the
\* history forgets the prompt that was interrupted)
safe_action(func, exc, h) ==
    Ends(IF exc = "KeyboardInterrupt" THEN "interrupted" ELSE "error",
         SessionLog(file, log, SafeActionLine(func, exc)),
         [h EXCEPT !.reads = 0, !.last = NoField, !.failed_before = FALSE])

(***************************************************************************)
(* main(): the session                                                     *)
(***************************************************************************)

Init ==
    /\ pc = "main"
    /\ file = "None"
    /\ log = <<>>
    /\ base_currency = "USD"
    /\ currencies = <<>>
    /\ started = 0
    /\ frame = IdleFrame
    /\ hist = NoHist
    /\ arg = ""
    /\ ret = <<>>

\* main() up to the first command prompt: SessionLogger.__enter__, then
\* CurrencyConverter.__init__ with its registry load, then run()'s banner
Main(open_ok, outcome) ==
    /\ pc = "main"
    /\ IF ~open_ok
       THEN \* open() raises OSError: __enter__ fails, main() ends
            /\ pc' = "exited"
            /\ UNCHANGED <<file, log, currencies>>
       ELSE LET started_log == SessionLog("open", log,
                                   [event |-> "=== New session started ==="])
                loaded == load_supported_currencies(outcome)
            IN  IF Raised(loaded)
                THEN \* __init__ raises out of the with block: __exit__
                     /\ pc' = "exited"
                     /\ log' = SessionLog("open", started_log, ExitLine(loaded[2]))
                     /\ file' = "None"
                     /\ currencies' = currencies
                ELSE /\ pc' = "menu"
                     /\ log' = started_log
                     /\ file' = "open"
                     /\ currencies' = loaded[2]
    /\ UNCHANGED <<base_currency, started, frame, hist, arg, ret>>

\* run() leaves its loop and main() leaves the with block
Leave(lines, exc_type) ==
    /\ pc' = "exited"
    /\ log' = SessionLog(file, lines, ExitLine(exc_type))
    /\ file' = "None"
    /\ hist' = NoHist
    /\ UNCHANGED <<base_currency, currencies, started, frame, arg, ret>>

Quit(input) ==
    /\ pc = "menu"
    /\ Strip(input) = "0"
    /\ Leave(SessionLog(file, log, [event |-> "User selected Quit."]), None)

\* Ctrl+C at the command prompt
MenuInterrupt ==
    /\ pc = "menu"
    /\ Leave(SessionLog(file, log,
                 [event |-> "User terminated app with Ctrl+C in main loop."]),
             None)

\* end of input at the command prompt: EOFError leaves run() and main()
MenuEndOfInput ==
    /\ pc = "menu"
    /\ Leave(log, "EOFError")

\* "9" shows the menu, "" and unknown commands do nothing
OtherCommand(input) ==
    /\ pc = "menu"
    /\ Strip(input) \notin {"0", "1", "2", "3", "4"}
    /\ UNCHANGED vars

(***************************************************************************)
(* The actions: entry                                                      *)
(***************************************************************************)

\* the first lines of every action: "if not self.currencies: reload"
Reloaded(outcome) ==
    IF currencies = <<>> THEN load_supported_currencies(outcome)
    ELSE Return(currencies)

\* what an action takes of the session's MaxActions
Budget(func) ==
    IF func \in {"convert_currency_amount", "get_exchange_rate_cli"}
    THEN MaxActions - started
    ELSE 1

\* an action is called from the menu and runs up to its first prompt
Begin(func, field, outcome) ==
    /\ pc = "menu"
    /\ started < MaxActions
    /\ started' = started + Budget(func)
    /\ LET loaded == Reloaded(outcome)
       IN  IF Raised(loaded)
           THEN /\ currencies' = currencies
                /\ safe_action(func, loaded[2],
                       FreshHist(func, base_currency, currencies, log))
           ELSE /\ currencies' = loaded[2]
                /\ pc' = "prompt"
                /\ frame' = [IdleFrame EXCEPT !.func = func, !.field = field]
                /\ hist' = FreshHist(func, base_currency, loaded[2], log)
                /\ log' = log
    /\ UNCHANGED <<file, base_currency, arg, ret>>

list_supported_currencies(input, outcome) ==
    /\ pc = "menu"
    /\ Strip(input) = "1"
    /\ started < MaxActions
    /\ started' = started + 1
    /\ LET func == "list_supported_currencies"
           loaded == Reloaded(outcome)
       IN  IF Raised(loaded)
           THEN /\ currencies' = currencies
                /\ safe_action(func, loaded[2],
                       FreshHist(func, base_currency, currencies, log))
           ELSE /\ currencies' = loaded[2]
                /\ IF Len(loaded[2]) = 0
                   THEN Ends("empty", log,
                             FreshHist(func, base_currency, loaded[2], log))
                   ELSE Ends("success",
                             SessionLog(file, log,
                                 [event |-> "User listed supported currencies."]),
                             [FreshHist(func, base_currency, loaded[2], log)
                                  EXCEPT !.listed = iter_currencies(loaded[2])])
    /\ UNCHANGED <<file, base_currency, arg, ret>>

(***************************************************************************)
(* set_base_currency                                                       *)
(***************************************************************************)

set_base_currency(input, outcome) ==
    /\ Strip(input) = "4"
    /\ Begin("set_base_currency", "base", outcome)

\* a variant that stores the prompt's result before testing it for None
set_base_currency_code_stores_first(text) ==
    /\ pc = "prompt"
    /\ frame.func = "set_base_currency"
    /\ frame.field = "base"
    /\ LET got == _prompt_currency_code(frame.attempts, text, FALSE, None, TRUE)
           r == got[1]
           code == got[2]
       IN  IF r.kind = "again"
           THEN Again(r) /\ base_currency' = base_currency
           ELSE IF code = None
           THEN /\ Ends("cancelled", log, HField(r, code))
                /\ base_currency' = code
           ELSE /\ base_currency' = code
                /\ Ends("success",
                        SessionLog(file, log,
                            [event |-> "Base currency changed", base |-> code]),
                        HField(r, code))
    /\ UNCHANGED <<file, currencies, started, arg, ret>>

set_base_currency_code(text) ==
    /\ pc = "prompt"
    /\ frame.func = "set_base_currency"
    /\ frame.field = "base"
    /\ LET got == _prompt_currency_code(frame.attempts, text, FALSE, None, TRUE)
           r == got[1]
           code == got[2]
       IN  IF r.kind = "again"
           THEN Again(r) /\ base_currency' = base_currency
           ELSE IF code = None
           THEN /\ Ends("cancelled", log, HField(r, code))
                /\ base_currency' = base_currency
           ELSE /\ base_currency' = code
                /\ Ends("success",
                        SessionLog(file, log,
                            [event |-> "Base currency changed", base |-> code]),
                        HField(r, code))
    /\ UNCHANGED <<file, currencies, started, arg, ret>>

(***************************************************************************)
(* The rate lookup of get_exchange_rate_cli and convert_currency_amount:   *)
(* the call made for a date text, and what it returns                      *)
(***************************************************************************)

\* a variant with the two codes swapped
RateCall_swapped(source, target, date_text) ==
    IF date_text = ""
    THEN [op |-> "fetch_latest_rate", base |-> target, target |-> source,
          date |-> None]
    ELSE [op |-> "fetch_rate_on_date", base |-> target, target |-> source,
          date |-> date_text]

RateCall(source, target, date_text) ==
    IF date_text = ""
    THEN [op |-> "fetch_latest_rate", base |-> source, target |-> target,
          date |-> None]
    ELSE [op |-> "fetch_rate_on_date", base |-> source, target |-> target,
          date |-> date_text]

Fetch(outcome, call) ==
    IF call.op = "fetch_latest_rate"
    THEN fetch_latest_rate(outcome, call.base, call.target)
    ELSE fetch_rate_on_date(outcome, call.base, call.target, call.date)

(***************************************************************************)
(* get_exchange_rate_cli                                                   *)
(***************************************************************************)

get_exchange_rate_cli(input, outcome) ==
    /\ Strip(input) = "3"
    /\ Begin("get_exchange_rate_cli", "source", outcome)

get_exchange_rate_cli_base(text) ==
    /\ pc = "prompt"
    /\ frame.func = "get_exchange_rate_cli"
    /\ frame.field = "source"
    /\ LET got == _prompt_currency_code(frame.attempts, text, TRUE,
                                        base_currency, FALSE)
           r == got[1]
           base_code == got[2]
       IN  IF r.kind = "again" THEN Again(r)
           ELSE IF base_code = None
           THEN Ends("cancelled", log, HField(r, base_code))
           ELSE Moves([frame EXCEPT !.field = "target", !.attempts = 0,
                                    !.source = base_code],
                      HField(r, base_code))
    /\ UNCHANGED <<file, base_currency, currencies, started, arg, ret>>

\* a variant without "if target_code is None: return"
get_exchange_rate_cli_target_goes_on(text) ==
    /\ pc = "prompt"
    /\ frame.func = "get_exchange_rate_cli"
    /\ frame.field = "target"
    /\ LET got == _prompt_currency_code(frame.attempts, text, FALSE, None, FALSE)
           r == got[1]
           target_code == got[2]
       IN  IF r.kind = "again" THEN Again(r)
           ELSE Moves([frame EXCEPT !.field = "date", !.attempts = 0,
                                    !.target = target_code],
                      HField(r, target_code))
    /\ UNCHANGED <<file, base_currency, currencies, started, arg, ret>>

get_exchange_rate_cli_target(text) ==
    /\ pc = "prompt"
    /\ frame.func = "get_exchange_rate_cli"
    /\ frame.field = "target"
    /\ LET got == _prompt_currency_code(frame.attempts, text, FALSE, None, FALSE)
           r == got[1]
           target_code == got[2]
       IN  IF r.kind = "again" THEN Again(r)
           ELSE IF target_code = None
           THEN Ends("cancelled", log, HField(r, target_code))
           ELSE Moves([frame EXCEPT !.field = "date", !.attempts = 0,
                                    !.target = target_code],
                      HField(r, target_code))
    /\ UNCHANGED <<file, base_currency, currencies, started, arg, ret>>

\* the lines after the rate call, with what it returned
get_exchange_rate_cli_result(rate, api_date, h) ==
    IF rate = NoneObj THEN Ends("unavailable", log, h)
    ELSE Ends("success",
              SessionLog(file, log,
                  [event |-> "Rate checked", base |-> frame.source,
                   target |-> frame.target, date |-> api_date, rate |-> rate]),
              h)

get_exchange_rate_cli_date(text, outcome) ==
    /\ pc = "prompt"
    /\ frame.func = "get_exchange_rate_cli"
    /\ frame.field = "date"
    /\ LET got == _prompt_date_or_latest(frame.attempts, text)
           r == got[1]
           date_text == got[2]
       IN  IF r.kind = "again" THEN Again(r)
           ELSE IF r.kind = "raise" THEN safe_action(frame.func, r.how, HRead(r))
           ELSE IF date_text = None
           THEN Ends("cancelled", log, HField(r, date_text))
           ELSE
           LET call == RateCall(frame.source, frame.target, date_text)
               fetched == Fetch(outcome, call)
               called == [HField(r, date_text) EXCEPT
                              !.calls = Append(@, call)]
           IN  IF Raised(fetched) THEN safe_action(frame.func, fetched[2], called)
               ELSE
               get_exchange_rate_cli_result(fetched[2][1], fetched[2][2],
                   [called EXCEPT !.fetched = fetched[2]])
    /\ UNCHANGED <<file, base_currency, currencies, started, arg, ret>>

(***************************************************************************)
(* convert_currency_amount                                                 *)
(***************************************************************************)

convert_currency_amount(input, outcome) ==
    /\ Strip(input) = "2"
    /\ Begin("convert_currency_amount", "source", outcome)

convert_currency_amount_source(text) ==
    /\ pc = "prompt"
    /\ frame.func = "convert_currency_amount"
    /\ frame.field = "source"
    /\ LET got == _prompt_currency_code(frame.attempts, text, TRUE,
                                        base_currency, FALSE)
           r == got[1]
           source_currency_code == got[2]
       IN  IF r.kind = "again" THEN Again(r)
           ELSE IF source_currency_code = None
           THEN Ends("cancelled", log, HField(r, source_currency_code))
           ELSE Moves([frame EXCEPT !.field = "target", !.attempts = 0,
                                    !.source = source_currency_code],
                      HField(r, source_currency_code))
    /\ UNCHANGED <<file, base_currency, currencies, started, arg, ret>>

convert_currency_amount_target(text) ==
    /\ pc = "prompt"
    /\ frame.func = "convert_currency_amount"
    /\ frame.field = "target"
    /\ LET got == _prompt_currency_code(frame.attempts, text, FALSE, None, FALSE)
           r == got[1]
           target_currency_code == got[2]
       IN  IF r.kind = "again" THEN Again(r)
           ELSE IF target_currency_code = None
           THEN Ends("cancelled", log, HField(r, target_currency_code))
           ELSE IF frame.source = target_currency_code
           THEN Ends("same", log, HField(r, target_currency_code))
           ELSE Moves([frame EXCEPT !.field = "amount", !.attempts = 0,
                                    !.target = target_currency_code],
                      HField(r, target_currency_code))
    /\ UNCHANGED <<file, base_currency, currencies, started, arg, ret>>

convert_currency_amount_amount(text) ==
    /\ pc = "prompt"
    /\ frame.func = "convert_currency_amount"
    /\ frame.field = "amount"
    /\ LET got == _prompt_amount(frame.attempts, text)
           r == got[1]
           amount == got[2]
       IN  IF r.kind = "again"
           THEN Moves([frame EXCEPT !.attempts = r.attempts],
                      HNegative(text, HRead(r)))
           ELSE IF r.kind = "raise" THEN safe_action(frame.func, r.how, HRead(r))
           ELSE IF amount = NoneObj
           THEN Ends("cancelled", log, HNegative(text, HField(r, amount)))
           ELSE Moves([frame EXCEPT !.field = "date", !.attempts = 0,
                                    !.amount = amount],
                      HNegative(text, HField(r, amount)))
    /\ UNCHANGED <<file, base_currency, currencies, started, arg, ret>>

\* a variant that writes the audit line before it looks at the rate
convert_currency_amount_result_logs_first(rate, rate_date, h) ==
    LET converted_amount == IF rate = NoneObj THEN NoneObj
                            ELSE DecMul(frame.amount, rate)
    IN  Ends(IF rate = NoneObj THEN "unavailable" ELSE "success",
             SessionLog(file, log,
                 [event |-> "Converted", amount |-> frame.amount,
                  source |-> frame.source, converted |-> converted_amount,
                  target |-> frame.target, rate |-> rate, date |-> rate_date]),
             [h EXCEPT !.converted = converted_amount])

\* a variant that logs the date the user typed
convert_currency_amount_result_typed_date(rate, rate_date, h) ==
    IF rate = NoneObj THEN Ends("unavailable", log, h)
    ELSE
    LET converted_amount == DecMul(frame.amount, rate)
    IN  Ends("success",
             SessionLog(file, log,
                 [event |-> "Converted", amount |-> frame.amount,
                  source |-> frame.source, converted |-> converted_amount,
                  target |-> frame.target, rate |-> rate, date |-> h.date]),
             [h EXCEPT !.converted = converted_amount])

\* the lines after the rate call, with what it returned
convert_currency_amount_result(rate, rate_date, h) ==
    IF rate = NoneObj THEN Ends("unavailable", log, h)
    ELSE
    LET converted_amount == DecMul(frame.amount, rate)
    IN  Ends("success",
             SessionLog(file, log,
                 [event |-> "Converted", amount |-> frame.amount,
                  source |-> frame.source, converted |-> converted_amount,
                  target |-> frame.target, rate |-> rate, date |-> rate_date]),
             [h EXCEPT !.converted = converted_amount])

convert_currency_amount_date(text, outcome) ==
    /\ pc = "prompt"
    /\ frame.func = "convert_currency_amount"
    /\ frame.field = "date"
    /\ LET got == _prompt_date_or_latest(frame.attempts, text)
           r == got[1]
           date_text == got[2]
       IN  IF r.kind = "again" THEN Again(r)
           ELSE IF r.kind = "raise" THEN safe_action(frame.func, r.how, HRead(r))
           ELSE IF date_text = None
           THEN Ends("cancelled", log, HField(r, date_text))
           ELSE
           LET call == RateCall(frame.source, frame.target, date_text)
               fetched == Fetch(outcome, call)
               called == [HField(r, date_text) EXCEPT
                              !.calls = Append(@, call)]
           IN  IF Raised(fetched) THEN safe_action(frame.func, fetched[2], called)
               ELSE
               convert_currency_amount_result(fetched[2][1], fetched[2][2],
                   [called EXCEPT !.fetched = fetched[2]])
    /\ UNCHANGED <<file, base_currency, currencies, started, arg, ret>>

(***************************************************************************)
(* Ctrl+C and end of input at a prompt of an action                        *)
(***************************************************************************)

\* input() raises KeyboardInterrupt inside an action
Interrupt ==
    /\ pc = "prompt"
    /\ safe_action(frame.func, "KeyboardInterrupt", hist)
    /\ UNCHANGED <<file, base_currency, currencies, started, arg, ret>>

\* input() raises EOFError inside an action
EndOfInput ==
    /\ pc = "prompt"
    /\ safe_action(frame.func, "EOFError", hist)
    /\ UNCHANGED <<file, base_currency, currencies, started, arg, ret>>

(***************************************************************************)
(* The specification                                                       *)
(***************************************************************************)

\* GET /currencies is requested by an action only if the registry is empty
Reload == Request(currencies = <<>>, Transport(CurrencyBodies))

\* a rate is requested only if the date prompt returns a date or ""
Lookup(text) ==
    Request(/\ frame.field = "date"
            /\ LET r == _prompt_date_or_latest(frame.attempts, text)[1]
               IN  r.kind = "return" /\ r.how # "exhausted",
            Transport(RateBodies(frame.target)))

Next ==
    \/ \E open_ok \in BOOLEAN, outcome \in Transport(CurrencyBodies) :
           Main(open_ok, outcome)
    \/ \E input \in Commands : Quit(input)
    \/ \E input \in Commands : OtherCommand(input)
    \/ MenuInterrupt
    \/ MenuEndOfInput
    \/ \E input \in Commands, outcome \in Reload :
           list_supported_currencies(input, outcome)
    \/ \E input \in Commands, outcome \in Reload :
           set_base_currency(input, outcome)
    \/ \E text \in CodeInputs : set_base_currency_code(text)
    \/ \E input \in Commands, outcome \in Reload :
           get_exchange_rate_cli(input, outcome)
    \/ \E text \in CodeInputs : get_exchange_rate_cli_base(text)
    \/ \E text \in CodeInputs : get_exchange_rate_cli_target(text)
    \/ \E text \in DateInputs : \E outcome \in Lookup(text) :
           get_exchange_rate_cli_date(text, outcome)
    \/ \E input \in Commands, outcome \in Reload :
           convert_currency_amount(input, outcome)
    \/ \E text \in CodeInputs : convert_currency_amount_source(text)
    \/ \E text \in CodeInputs : convert_currency_amount_target(text)
    \/ \E text \in AmountInputs : convert_currency_amount_amount(text)
    \/ \E text \in DateInputs : \E outcome \in Lookup(text) :
           convert_currency_amount_date(text, outcome)
    \/ Interrupt
    \/ EndOfInput

Spec == Init /\ [][Next]_vars

(***************************************************************************)
(* is_valid_date_yyyy_mm_dd called on its own: one call per text           *)
(***************************************************************************)

MaxMonth == 13
MaxDay == 32
Years == {1900, 2000, 2023, 2024}

DigitText == <<"0", "1", "2", "3", "4", "5", "6", "7", "8", "9">>
Pad2(n) == DigitText[((n \div 10) % 10) + 1] \o DigitText[(n % 10) + 1]
Pad4(n) == Pad2(n \div 100) \o Pad2(n % 100)
FormatDate(year, month, day) == Pad4(year) \o "-" \o Pad2(month) \o "-" \o Pad2(day)

MalformedDates ==
    {"", "2024-2-29", "2024/02/29", "24-02-29", "2024-02-29-01", "2024-02",
     "abcd-ef-gh", "2024-0a-01", " 2024-02-29 ", "20²4-01-01", "2024-01-0²"}

DateTexts ==
    {FormatDate(y, m, d) : y \in Years, m \in 0..MaxMonth, d \in 0..MaxDay}
        \cup MalformedDates

InitDate ==
    /\ pc = "is_valid_date_yyyy_mm_dd"
    /\ arg \in DateTexts
    /\ ret = <<>>
    /\ file = "None"
    /\ log = <<>>
    /\ base_currency = "USD"
    /\ currencies = <<>>
    /\ started = 0
    /\ frame = IdleFrame
    /\ hist = NoHist

is_valid_date_yyyy_mm_dd_call ==
    /\ pc = "is_valid_date_yyyy_mm_dd"
    /\ ret' = is_valid_date_yyyy_mm_dd(arg)
    /\ pc' = "done"
    /\ UNCHANGED <<file, log, base_currency, currencies, started, frame, hist, arg>>

NextDate == is_valid_date_yyyy_mm_dd_call

SpecDate == InitDate /\ [][NextDate]_vars

(***************************************************************************)
(* The amount functions called on their own: one call per text             *)
(***************************************************************************)

MaxTextLen == 3

AmountAlphabet == {"5", "0", ".", "-", "+", " ", "a", "²"}

\* every text of at most n characters of the alphabet
RECURSIVE TextsOver(_, _)
TextsOver(alphabet, n) ==
    IF n = 0 THEN {""}
    ELSE LET shorter == TextsOver(alphabet, n - 1)
         IN  shorter \cup {s \o c : s \in shorter, c \in alphabet}

AmountTexts == TextsOver(AmountAlphabet, MaxTextLen)

InitAmount ==
    /\ pc \in {"_prompt_amount", "parse_amount"}
    /\ arg \in AmountTexts
    /\ \E attempts \in 0..2 :
           /\ pc = "parse_amount" => attempts = 0
           /\ frame = [IdleFrame EXCEPT !.func = pc, !.field = "amount",
                                        !.attempts = attempts]
    /\ ret = <<>>
    /\ file = "None"
    /\ log = <<>>
    /\ base_currency = "USD"
    /\ currencies = <<>>
    /\ started = 0
    /\ hist = NoHist

\* one pass of _prompt_amount's loop on the text read
_prompt_amount_call ==
    /\ pc = "_prompt_amount"
    /\ ret' = _prompt_amount(frame.attempts, arg)
    /\ pc' = "_prompt_amount done"
    /\ UNCHANGED <<file, log, base_currency, currencies, started, frame, hist, arg>>

\* is_number_str(text), then parse_amount(text) whatever it answered
parse_amount_call ==
    /\ pc = "parse_amount"
    /\ ret' = <<is_number_str(arg), parse_amount(arg)>>
    /\ pc' = "parse_amount done"
    /\ UNCHANGED <<file, log, base_currency, currencies, started, frame, hist, arg>>

NextAmount == _prompt_amount_call \/ parse_amount_call

SpecAmount == InitAmount /\ [][NextAmount]_vars

(***************************************************************************)
(* The two rate calls of CurrencyAPIClient called on their own             *)
(***************************************************************************)

FetchCodes == {"USD", "EUR", "THB"}

\* the bodies of a rate request, and one whose rates are for another code
FetchBodies(target) ==
    RateBodies(target)
        \cup {[rates |-> ("ZZZ" :> JsonNumber(ProviderRate)), date |-> ProviderDate]}

InitFetch ==
    /\ pc = "fetch"
    /\ \E base \in FetchCodes, target \in FetchCodes, date_text \in {"", "2024-02-29"} :
           \E outcome \in Transport(FetchBodies(target)) :
               arg = [call |-> RateCall(base, target, date_text),
                      outcome |-> outcome]
    /\ ret = <<>>
    /\ file = "None"
    /\ log = <<>>
    /\ base_currency = "USD"
    /\ currencies = <<>>
    /\ started = 0
    /\ frame = IdleFrame
    /\ hist = NoHist

fetch_call ==
    /\ pc = "fetch"
    /\ ret' = Fetch(arg.outcome, arg.call)
    /\ pc' = "fetch done"
    /\ UNCHANGED <<file, log, base_currency, currencies, started, frame, hist, arg>>

NextFetch == fetch_call

SpecFetch == InitFetch /\ [][NextFetch]_vars

(***************************************************************************)
(* is_valid_currency_code called on its own, in a loaded registry          *)
(***************************************************************************)

MaxCodeLen == 4

CodeAlphabet == {"u", "s", "d", "D", " ", "1"}

CodeTexts == TextsOver(CodeAlphabet, MaxCodeLen) \cup {None}

\* registries a load can have stored
Registries ==
    {<<>>, << <<"USD", "US Dollar">> >>, FallbackCurrencies,
     Sorted(<< <<"USD", "United States Dollar">>, <<"SDD", "Sudanese Dinar">> >>)}

InitCode ==
    /\ pc = "is_valid_currency_code"
    /\ arg \in CodeTexts
    /\ currencies \in Registries
    /\ ret = <<>>
    /\ file = "None"
    /\ log = <<>>
    /\ base_currency = "USD"
    /\ started = 0
    /\ frame = IdleFrame
    /\ hist = NoHist

is_valid_currency_code_call ==
    /\ pc = "is_valid_currency_code"
    /\ ret' = Return(is_valid_currency_code(arg))
    /\ pc' = "is_valid_currency_code done"
    /\ UNCHANGED <<file, log, base_currency, currencies, started, frame, hist, arg>>

NextCode == is_valid_currency_code_call

SpecCode == InitCode /\ [][NextCode]_vars

(***************************************************************************)
(* SessionLogger on its own: the with statement of main() around any       *)
(* calls of log, and calls of log outside it.  pc is "new" before          *)
(* __enter__, "entered" inside the with block, "exited" after it; ret is   *)
(* the last method called with its argument.                               *)
(***************************************************************************)

MaxLines == 3

Messages ==
    {[event |-> "User selected Quit."], [event |-> "Error"],
     [event |-> "User listed supported currencies."]}

ExitTypes == {None, "KeyboardInterrupt", "EOFError"}

InitLogger ==
    /\ pc = "new"
    /\ file = "None"
    /\ log = <<>>
    /\ ret = <<"__init__">>
    /\ arg = ""
    /\ base_currency = "USD"
    /\ currencies = <<>>
    /\ started = 0
    /\ frame = IdleFrame
    /\ hist = NoHist

\* with SessionLogger(...) as logger: open() may raise, and then neither
\* the block nor __exit__ runs
SessionLogger_enter(open_ok) ==
    /\ pc = "new"
    /\ IF open_ok
       THEN /\ file' = "open"
            /\ log' = SessionLog("open", log, [event |-> "=== New session started ==="])
            /\ pc' = "entered"
            /\ ret' = <<"__enter__", Return(NoneObj)>>
       ELSE /\ file' = file
            /\ log' = log
            /\ pc' = "exited"
            /\ ret' = <<"__enter__", Raise("OSError")>>
    /\ UNCHANGED <<base_currency, currencies, started, frame, hist, arg>>

SessionLogger_log(message) ==
    /\ Len(log) <= MaxLines
    /\ log' = SessionLog(file, log, message)
    /\ ret' = <<"log", message>>
    /\ UNCHANGED <<pc, file, base_currency, currencies, started, frame, hist, arg>>

\* the with block is left, normally or by an exception
SessionLogger_exit(exc_type) ==
    /\ pc = "entered"
    /\ log' = SessionLog(file, log, ExitLine(exc_type))
    /\ file' = "None"
    /\ pc' = "exited"
    /\ ret' = <<"__exit__", exc_type>>
    /\ UNCHANGED <<base_currency, currencies, started, frame, hist, arg>>

NextLogger ==
    \/ \E open_ok \in BOOLEAN : SessionLogger_enter(open_ok)
    \/ \E message \in Messages : SessionLogger_log(message)
    \/ \E exc_type \in ExitTypes : SessionLogger_exit(exc_type)

SpecLogger == InitLogger /\ [][NextLogger]_vars

(***************************************************************************)
(* Properties                                                              *)
(***************************************************************************)

Orchestrated == {"convert_currency_amount", "get_exchange_rate_cli"}

\* the line the action appended, if it appended exactly one
OneLine == IF Len(log) = Len(hist.log0) + 1 /\ SubSeq(log, 1, Len(hist.log0)) = hist.log0
           THEN log[Len(log)]
           ELSE [event |-> "not one line"]

\* C1: a prompt whose every read fails is read exactly 3 times and then
\* returns None: while it is pending every read so far was a failed attempt
\* and fewer than 3 were made; it gives up only at the 3rd read, with its
\* counter at 3, whatever earlier prompts of the action used up; the
\* action is then cancelled
C1_ThreeReadsThenCancelled ==
    /\ pc = "prompt" => hist.reads = frame.attempts /\ frame.attempts < 3
    /\ hist.last.how = "exhausted" =>
           /\ hist.last.reads = 3
           /\ hist.last.attempts = 3
           /\ hist.result = "cancelled"
    /\ hist.last.how \notin {"none", "exhausted"} =>
           hist.last.reads = hist.last.attempts + 1 /\ hist.last.reads <= 3

\* C1 witness: the date prompt gave up after 3 reads although an earlier
\* prompt of the same action had failed attempts
C1_Witness ==
    /\ hist.last.field = "date"
    /\ hist.last.how = "exhausted"
    /\ hist.last.reads = 3
    /\ hist.failed_before

\* C2: with allow_empty and a default, an empty or whitespace-only input
\* returns the default at once, at any attempt: is_valid_currency_code is
\* not called and the attempt counter stays as it was
C2_EmptyReturnsDefault ==
    /\ \A attempts \in 0..2, text \in CodeInputs :
           Upper(Strip(text)) = "" =>
               _prompt_currency_code(attempts, text, TRUE, base_currency, FALSE)
                   = <<Returns(attempts, FALSE, "default"), base_currency>>
    /\ hist.last.how = "default" =>
           /\ hist.last.field = "source"
           /\ ~hist.last.validated
           /\ hist.last.attempts = hist.last.reads - 1
           /\ hist.source = hist.base0

\* C2 witness: the default was returned at the 3rd read, after 2 failed
\* attempts in the same prompt
C2_Witness ==
    /\ hist.last.how = "default"
    /\ hist.last.reads = 3
    /\ hist.last.attempts = 2

\* C3: when the rate call of convert_currency_amount returns no rate, the
\* action ends as a failure, logs nothing and never computes the product
C3_UnavailableNoConversion ==
    (/\ hist.func = "convert_currency_amount"
     /\ hist.fetched # <<>>
     /\ hist.fetched[1] = NoneObj
     /\ pc = "menu")
    => /\ hist.result = "unavailable"
       /\ hist.converted = NoneObj
       /\ log = hist.log0

\* C3 witness: a conversion whose four prompts returned and whose rate call
\* returned no rate
C3_Witness ==
    /\ hist.func = "convert_currency_amount"
    /\ hist.result = "unavailable"
    /\ Len(hist.calls) = 1
    /\ hist.amount # NoneObj

\* C4: a successful conversion computes amount * rate and appends exactly
\* one line, with the two codes, the amount, the product, the rate and the
\* date the rate call returned; a successful rate lookup appends exactly one
\* line with the two codes, the rate and the date the rate call returned
C4_SuccessOneAuditEvent ==
    (pc = "menu" /\ hist.func \in Orchestrated
     /\ (hist.result = "success"
         \/ (hist.fetched # <<>> /\ hist.fetched[1] # NoneObj)))
    => /\ hist.result = "success"
       /\ hist.fetched # <<>>
       /\ hist.fetched[1] # NoneObj
       /\ hist.func = "convert_currency_amount" =>
              /\ hist.source # hist.target
              /\ hist.converted = DecMul(hist.amount, hist.fetched[1])
              /\ OneLine = [event |-> "Converted", amount |-> hist.amount,
                            source |-> hist.source,
                            converted |-> hist.converted,
                            target |-> hist.target,
                            rate |-> hist.fetched[1],
                            date |-> hist.fetched[2]]
       /\ hist.func = "get_exchange_rate_cli" =>
              OneLine = [event |-> "Rate checked", base |-> hist.source,
                         target |-> hist.target, date |-> hist.fetched[2],
                         rate |-> hist.fetched[1]]

\* C4 witness: 100 USD converted at 35 on a date the user typed, logged
\* with the product 3500 and the other date the service answered with
C4_Witness ==
    /\ pc = "menu"
    /\ hist.func = "convert_currency_amount"
    /\ hist.result = "success"
    /\ hist.amount = Dec(100, 0)
    /\ hist.converted = Dec(3500, 0)
    /\ hist.date = "2024-02-29"
    /\ log[Len(log)].date = ProviderDate

\* C5: in a conversion and in a rate lookup, once the target returned
\* equals the source the action ends as a no-op: no prompt is pending, no
\* rate call is made and no line is logged
C5_SameCurrencyNoOp ==
    (/\ hist.func \in Orchestrated
     /\ hist.target # None
     /\ hist.target = hist.source)
    => /\ pc # "prompt"
       /\ hist.calls = <<>>
       /\ log = hist.log0

\* C6: an action makes at most one rate call, and only after all its
\* prompts returned a value: fetch_latest_rate exactly when the date prompt
\* returned "" (empty input), else fetch_rate_on_date, with the source and
\* target codes the prompts returned and the date text that is valid
C6_OneCallAfterAllFields ==
    /\ Len(hist.calls) <= 1
    /\ pc = "prompt" => hist.calls = <<>>
    /\ hist.calls # <<>> =>
           LET call == hist.calls[1]
           IN  /\ hist.func \in Orchestrated
               /\ hist.source # None /\ hist.target # None /\ hist.date # None
               /\ hist.func = "convert_currency_amount" => hist.amount # NoneObj
               /\ call.base = hist.source
               /\ call.target = hist.target
               /\ (call.op = "fetch_latest_rate") = (hist.date = "")
               /\ call.op # "fetch_latest_rate" =>
                      /\ call.op = "fetch_rate_on_date"
                      /\ call.date = hist.date
                      /\ is_valid_date_yyyy_mm_dd(call.date) = Return(TRUE)
    /\ (pc = "menu" /\ hist.result \in {"success", "unavailable"}
        /\ hist.func \in Orchestrated) => Len(hist.calls) = 1

\* C6 witness: fetch_rate_on_date called with the typed date after the date
\* prompt had a failed attempt
C6_Witness ==
    /\ Len(hist.calls) = 1
    /\ hist.calls[1] = [op |-> "fetch_rate_on_date", base |-> "EUR",
                        target |-> "USD", date |-> "2024-02-29"]
    /\ hist.last.field = "date"
    /\ hist.last.attempts = 2

\* C7: when a prompt gives up after its 3rd failed attempt the action is
\* abandoned: no prompt is pending, no rate call was made, no line was
\* logged, and base currency and registry are those of the action's start
C7_CancelAbandonsAction ==
    hist.last.how = "exhausted" =>
        /\ pc = "menu"
        /\ frame = IdleFrame
        /\ hist.result = "cancelled"
        /\ hist.calls = <<>>
        /\ log = hist.log0
        /\ base_currency = hist.base0
        /\ currencies = hist.currencies0

\* C7 witness: the target prompt of a rate lookup gave up after the source
\* prompt had returned
C7_Witness ==
    /\ hist.func = "get_exchange_rate_cli"
    /\ hist.last.field = "target"
    /\ hist.last.how = "exhausted"
    /\ hist.source = "EUR"

\* C8: Ctrl+C inside an action ends that action only: base currency and
\* registry are unchanged, exactly one line noting the interruption (and
\* no other) is logged, and run() is back at its command prompt with the
\* session open
C8_InterruptUnwindsActionOnly ==
    (pc = "menu" /\ hist.result = "interrupted")
    => /\ base_currency = hist.base0
       /\ currencies = hist.currencies0
       /\ OneLine = SafeActionLine(hist.func, "KeyboardInterrupt")
       /\ file = "open"
       /\ frame = IdleFrame

\* C8 witness: a conversion interrupted at its date prompt
C8_Witness ==
    /\ pc = "menu"
    /\ hist.func = "convert_currency_amount"
    /\ hist.result = "interrupted"
    /\ hist.amount # NoneObj
    /\ hist.calls = <<>>

\* C9: once the converter is constructed, base_currency and every code
\* passed to a rate call is a key of the registry
C9_CodesValidatedBeforeUse ==
    pc \in {"menu", "prompt"} =>
        /\ base_currency \in Keys(currencies)
        /\ \A i \in 1..Len(hist.calls) :
               /\ hist.calls[i].base \in Keys(currencies)
               /\ hist.calls[i].target \in Keys(currencies)

\* the month length L of the statement: February has 29 days exactly when
\* the year is divisible by 400, or by 4 but not by 100
MonthLength(year, month) ==
    IF month = 2
    THEN IF year % 400 = 0 \/ (year % 4 = 0 /\ year % 100 # 0) THEN 29 ELSE 28
    ELSE IF month \in {4, 6, 9, 11} THEN 30 ELSE 31

\* a text that splits on "-" into three parts of widths 4/2/2 made of the
\* digits 0..9 (surrounding whitespace is stripped first, as the function does)
IsYyyyMmDd(text) ==
    LET parts == Split(Strip(text), "-")
    IN  /\ Len(parts) = 3
        /\ Len(parts[1]) = 4 /\ Len(parts[2]) = 2 /\ Len(parts[3]) = 2
        /\ \A i \in 1..3 : AllAsciiDigits(parts[i])

\* C10: is_valid_date_yyyy_mm_dd returns true for a YYYY-MM-DD text whose
\* month is in 1..12 and day in 1..L, false when the day is L+1 or 0, and
\* false for every text that is not three all-digit parts of widths 4/2/2
C10_DateVerdict ==
    pc = "done" =>
        IF IsYyyyMmDd(arg)
        THEN LET parts == Split(Strip(arg), "-")
                 year == DigitsValue(parts[1])
                 month == DigitsValue(parts[2])
                 day == DigitsValue(parts[3])
             IN  month \in 1..12 =>
                     /\ day \in 1..MonthLength(year, month) => ret = Return(TRUE)
                     /\ day \in {0, MonthLength(year, month) + 1} =>
                            ret = Return(FALSE)
        ELSE ret = Return(FALSE)

\* the texts the statement lists as rejected: empty, more than one
\* decimal point, no digit, or a lone sign (a digit is what str.isdigit
\* calls one)
ListedAsRejected(text) ==
    \/ text = ""
    \/ Count(text, ".") > 1
    \/ \A i \in 1..Len(text) : ~IsDigitChar(Char(text, i))
    \/ text \in {"+", "-"}

\* C11: in _prompt_amount, parse_amount is called only after is_number_str
\* returned true for the same text; an input that is empty, has more than
\* one decimal point, has no digit or is a lone sign never reaches
\* parse_amount and costs one attempt
C11_ParseOnlyAfterNumberCheck ==
    pc = "_prompt_amount done" =>
        LET r == ret[1]
            called == ret[3]
            text == Strip(arg)
            parsed == \E i \in 1..Len(called) : called[i] = "parse_amount"
        IN  /\ parsed => /\ called = <<"is_number_str", "parse_amount">>
                         /\ is_number_str(text)
            /\ ListedAsRejected(text) =>
                   /\ ~parsed
                   /\ ret[2] = NoneObj
                   /\ r.kind \in {"again", "return"}
                   /\ r.attempts = frame.attempts + 1
                   /\ (r.how = "exhausted") = (frame.attempts = 2)

\* C11 witness: a text with two decimal points read at the 3rd attempt
C11_Witness ==
    /\ pc = "_prompt_amount done"
    /\ arg = "5.."
    /\ frame.attempts = 2
    /\ ret[1].how = "exhausted"
    /\ ret[3] = <<"is_number_str">>

\* an optional single leading sign, then decimal digits with at most one
\* ".", at least one digit
WellFormedNumber(text) ==
    LET signed == Len(text) > 0 /\ Char(text, 1) \in {"+", "-"}
        body == IF signed THEN SubSeq(text, 2, Len(text)) ELSE text
    IN  /\ \A i \in 1..Len(body) : Char(body, i) \in DecimalDigits \cup {"."}
        /\ Count(body, ".") <= 1
        /\ \E i \in 1..Len(body) : Char(body, i) \in DecimalDigits

Padding == {"", " ", "\t "}

\* C12: is_number_str accepts exactly the trimmed texts that are an
\* optional sign, then digits with at most one "." and at least one digit;
\* for every text it accepts parse_amount returns a value, and the same
\* value with whitespace added around the text
C12_AcceptedParses ==
    pc = "parse_amount done" =>
        /\ ret[1] = WellFormedNumber(Strip(arg))
        /\ ret[1] =>
               /\ Returned(ret[2])
               /\ \A before \in Padding, after \in Padding :
                      parse_amount(before \o arg \o after) = ret[2]

\* C13: an amount that _prompt_amount returns is >= 0; a well-formed
\* negative input is rejected and costs one attempt, so no negative amount
\* is multiplied by a rate; only convert_currency_amount has an amount
\* prompt
C13_AmountNonNegative ==
    /\ \A attempts \in 0..2, text \in AmountInputs :
           LET got == _prompt_amount(attempts, text)
           IN  /\ got[2] # NoneObj => got[2].num >= 0
               /\ NegativeAmount(text) =>
                      /\ got[2] = NoneObj
                      /\ got[1] = Failed(attempts, TRUE)
                      /\ got[1].attempts = attempts + 1
    /\ hist.amount # NoneObj => hist.amount.num >= 0
    /\ frame.amount # NoneObj => frame.amount.num >= 0
    /\ hist.converted # NoneObj =>
           /\ hist.amount # NoneObj
           /\ hist.converted = DecMul(hist.amount, hist.fetched[1])
    /\ (hist.negative /\ hist.last.field = "amount") =>
           /\ hist.last.attempts >= 1
           /\ hist.last.how \in {"accepted", "exhausted"}
    /\ (pc = "prompt" /\ frame.field = "amount" /\ hist.negative) =>
           frame.attempts >= 1
    /\ (frame.field = "amount" \/ hist.amount # NoneObj \/ hist.negative) =>
           hist.func = "convert_currency_amount"

\* C13 witness: a conversion that succeeded with amount 100 after the
\* amount prompt had read a negative number
C13_Witness ==
    /\ pc = "menu"
    /\ hist.func = "convert_currency_amount"
    /\ hist.result = "success"
    /\ hist.negative
    /\ hist.amount = Dec(100, 0)
    /\ hist.converted = Dec(3500, 0)

\* the codes of the items are in strictly ascending order
AscendingCodes(items) ==
    \A i \in 1..Len(items), j \in 1..Len(items) :
        i < j => StrLess(items[i][1], items[j][1])

\* C14: after every load_supported_currencies, from the provider or from
\* the fallback set, iter_currencies and list_supported_currencies
\* enumerate each registry entry once, in ascending order of code
C14_ListedInCodeOrder ==
    /\ pc \in {"menu", "prompt"} =>
           /\ AscendingCodes(iter_currencies(currencies))
           /\ Len(iter_currencies(currencies)) = Cardinality(Keys(currencies))
    /\ (hist.func = "list_supported_currencies" /\ hist.result = "success") =>
           /\ hist.listed = currencies
           /\ AscendingCodes(hist.listed)

\* the items of a dict, as a set
Items(items) == {items[i] : i \in 1..Len(items)}

\* the complete mappings a load can store
CompleteMappings ==
    {Items(body) : body \in CurrencyBodies} \cup {Items(FallbackCurrencies)}

\* C15: the registry is only replaced wholesale: it always equals the whole
\* mapping a currencies load returned or the whole fallback set, the
\* fallback being stored exactly when the load is unavailable; and no step
\* of an action after its first prompt changes it
C15_RegistryReplacedWholesale ==
    /\ [](/\ Items(currencies) \in CompleteMappings \cup {{}}
          /\ Len(currencies) = Cardinality(Items(currencies))
          /\ \A outcome \in Transport(CurrencyBodies) :
                 LET loaded == load_supported_currencies(outcome)
                 IN  /\ outcome.kind = "ok" =>
                            /\ Returned(loaded)
                            /\ Items(loaded[2]) = Items(outcome.body)
                     /\ outcome.kind \in {"Timeout", "RequestException",
                                          "ValueError"} =>
                            loaded = Return(FallbackCurrencies)
                     /\ (Returned(loaded) /\ loaded[2] = FallbackCurrencies) =>
                            outcome.kind # "ok")
    /\ [][currencies' # currencies =>
              /\ pc \in {"main", "menu"}
              /\ currencies = <<>>
              /\ \E outcome \in Transport(CurrencyBodies) :
                     /\ Returned(load_supported_currencies(outcome))
                     /\ currencies' = load_supported_currencies(outcome)[2]]_vars

\* C15 witness: the base currency was changed to EUR in a registry loaded
\* from the provider, which is as it was when the action began
C15_Witness ==
    /\ pc = "menu"
    /\ hist.func = "set_base_currency"
    /\ hist.result = "success"
    /\ base_currency = "EUR"
    /\ Keys(currencies) = {"EUR", "THB", "USD"}
    /\ currencies = hist.currencies0

\* the outcomes the statement lists: a timeout, a transport or HTTP-status
\* error, a decode failure, a body without "rates", rates without the
\* target key
ListedUnavailable(outcome, target) ==
    \/ outcome.kind \in {"Timeout", "RequestException", "ValueError"}
    \/ outcome.kind = "number"
    \/ /\ outcome.kind = "ok"
       /\ \/ "rates" \notin DOMAIN outcome.body
          \/ target \notin DOMAIN outcome.body.rates

\* C16: fetch_latest_rate and fetch_rate_on_date return (None, None) and
\* do not raise when the request times out, fails in transport or by HTTP
\* status, cannot be decoded, has a body without "rates" or has rates
\* without the target key; they return a rate only when the key is there
C16_UnavailableNeverRaises ==
    pc = "fetch done" =>
        /\ ListedUnavailable(arg.outcome, arg.call.target) =>
               ret = Return(<<NoneObj, None>>)
        /\ (Returned(ret) /\ ret[2][1] # NoneObj) =>
               /\ arg.outcome.kind = "ok"
               /\ "rates" \in DOMAIN arg.outcome.body
               /\ arg.call.target \in DOMAIN arg.outcome.body.rates

\* the ways an action entry point finishes
Finished ==
    {"success", "cancelled", "unavailable", "interrupted", "error", "same",
     "empty"}

\* the lines run() logs when its loop ends
FinalLines ==
    {[event |-> "User selected Quit."],
     [event |-> "User terminated app with Ctrl+C in main loop."]}

\* C17: however an action finishes, run() is back at its command prompt
\* with the session open; the loop is left only by command "0" or by Ctrl+C
\* at the command prompt, and then exactly one final line is logged before
\* the loop exits (and the session ends normally)
C17_OnlyQuitOrInterruptEndsLoop ==
    /\ [](hist.result \in Finished => pc = "menu" /\ file = "open")
    /\ [][(pc = "menu" /\ pc' # "menu") =>
              \/ pc' = "prompt"
              \/ /\ pc' = "exited"
                 /\ \E line \in FinalLines :
                        log' = log \o <<line, ExitLine(None)>>]_vars

\* C18: is_valid_currency_code(code) is true exactly when the text,
\* trimmed and upper-cased, has 3 characters, all letters, and is a key of
\* the registry: "usd" is accepted when "USD" is registered, a 2-letter
\* code is rejected, None gives false
C18_KnownThreeLetterCode ==
    pc = "is_valid_currency_code done" =>
        /\ Returned(ret)
        /\ arg = None => ret[2] = FALSE
        /\ arg # None =>
               LET code == Upper(Strip(arg))
               IN  /\ ret[2] = (/\ Len(code) = 3
                                /\ \A i \in 1..3 : Char(code, i) \in Letters
                                /\ \E i \in 1..Len(currencies) :
                                       currencies[i][1] = code)
                   /\ Len(Strip(arg)) = 2 => ret[2] = FALSE
                   /\ (Strip(arg) = "usd" /\ "USD" \in Keys(currencies)) =>
                          ret[2] = TRUE

\* C18 witness: " usd" is accepted in the registry {"USD": "US Dollar"}
C18_Witness ==
    /\ pc = "is_valid_currency_code done"
    /\ arg = " usd"
    /\ currencies = << <<"USD", "US Dollar">> >>
    /\ ret = Return(TRUE)

\* the lines __exit__ can log
SessionEndedLines == {ExitLine(exc_type) : exc_type \in ExitTypes}

C20_BaseChangesOnlyOnValidCode ==
    /\ [](\A attempts \in 0..2, text \in CodeInputs :
              LET got == _prompt_currency_code(attempts, text, FALSE, None, TRUE)
              IN  /\ Upper(Strip(text)) = "" =>
                         got = <<Returns(attempts, FALSE, "empty_cancel"), None>>
                  /\ got[2] # None =>
                         /\ got[2] = Upper(Strip(text))
                         /\ is_valid_currency_code(got[2]))
    /\ [](hist.func = "set_base_currency" =>
              /\ hist.last.how = "empty_cancel" =>
                     /\ hist.result = "cancelled"
                     /\ hist.last.attempts = hist.last.reads - 1
              /\ hist.result # "success" =>
                     /\ base_currency = hist.base0
                     /\ hist.result \in {"running", "cancelled"} =>
                            log = hist.log0
              /\ hist.result = "success" =>
                     /\ hist.last.how = "accepted"
                     /\ hist.last.validated
                     /\ base_currency = hist.source
                     /\ base_currency \in Keys(currencies)
                     /\ OneLine = [event |-> "Base currency changed",
                                   base |-> base_currency])
    /\ [][base_currency' # base_currency =>
              /\ hist'.func = "set_base_currency"
              /\ hist'.result = "success"
              /\ hist.result = "running"]_vars
    /\ []((hist.func \in Orchestrated /\ hist.last.how = "default") =>
              /\ hist.source = hist.base0
              /\ base_currency = hist.base0)

\* C20 witness: after the base was changed to EUR, a rate lookup returned
\* EUR for an empty base input
C20_Witness ==
    /\ hist.func = "get_exchange_rate_cli"
    /\ hist.last.how = "default"
    /\ hist.source = "EUR"
    /\ base_currency = "EUR"
    /\ \E i \in 1..Len(log) :
           log[i] = [event |-> "Base currency changed", base |-> "EUR"]

\* the most inputs an action is said to read
ReadLimit(func) ==
    IF func = "set_base_currency" THEN 3
    ELSE IF func = "get_exchange_rate_cli" THEN 9
    ELSE IF func = "convert_currency_amount" THEN 12
    ELSE 0

\* the place of a prompt among the prompts of its action
Position(func, field) ==
    IF field \in {"base", "source"} THEN 1
    ELSE IF field = "target" THEN 2
    ELSE IF field = "amount" THEN 3
    ELSE IF field = "date" THEN
        IF func = "convert_currency_amount" THEN 4 ELSE 3
    ELSE 0

\* The most input() calls the action can have made so far: every prompt
\* that returned made at most 3 (each of them was hist.last when it
\* returned), and the pending prompt made hist.reads.  A prompt left by
\* an exception was pending, and below the limit, one read earlier.
ReadsAtMost ==
    IF pc = "prompt"
    THEN 3 * (Position(hist.func, frame.field) - 1) + hist.reads
    ELSE 3 * (Position(hist.func, hist.last.field) - 1) + hist.last.reads

\* the action ended because an input read or a provider call did not
\* return: Ctrl+C or end of input at a prompt, or an exception out of
\* a request
DidNotReturn ==
    /\ hist.result \in {"interrupted", "error"}
    /\ log # <<>>
    /\ log[Len(log)] \in
           {SafeActionLine(hist.func, exc) :
                exc \in {"KeyboardInterrupt", "EOFError", "TypeError",
                         "AttributeError"}}

\* C21: when every input read and every provider call returns, an action
\* terminates: set_base_currency reads at most 3 inputs,
\* get_exchange_rate_cli at most 9, convert_currency_amount at most 12 (a
\* pending prompt is always below the limit), and the action then has ended
\* as success, cancelled, same currency or provider unavailable
C21_ActionsEndWithinReadLimit ==
    hist.func \in {"set_base_currency", "get_exchange_rate_cli",
                   "convert_currency_amount"} =>
        /\ hist.reads <= 3 /\ hist.last.reads <= 3
        /\ ReadsAtMost <= ReadLimit(hist.func)
        /\ pc = "prompt" => ReadsAtMost < ReadLimit(hist.func)
        /\ (pc = "menu" /\ ~DidNotReturn) =>
               hist.result \in {"success", "cancelled", "same", "unavailable"}

=============================================================================
